---- MODULE Spec2Model ----
(***************************************************************************)
(* Model of the snake game engine, src/src/game_logic.py (class SnakeGame), *)
(* driven the way src/src/snake_game.py drives it.  Positions and           *)
(* displacements are pairs <<x, y>> of pixels, as in the source.            *)
(***************************************************************************)
EXTENDS Integers, Sequences, FiniteSets, TLC

VARIABLES width, height, block_size,   \* the board, fixed at construction
          game_over, score, snake_pos, direction, food_pos,
          pc,      \* "ready", "generate_food" while a call spins in the loop of lines
                   \* 75-87, or "error" when __init__ ended in an exception
          last,    \* the call that produced this state: [op, arg]
          before,  \* the engine's fields as they were when that call began
          ret,     \* what the last direct call of a query returned: the position from
                   \* generate_food, <<b>> for the boolean b from check_collision, else None
          returned \* the dict the caller holds from its last get_state call

vars == <<width, height, block_size, game_over, score, snake_pos, direction,
          food_pos, pc, last, before, ret, returned>>

\* ---------------------------------------------------------------- bounds
\* Boards have at least 2 cells per side and at most MaxArea cells in all.
MaxArea == 9
\* Boards of SpecAny, where the caller passes arbitrary displacements, have at
\* most MaxAnyArea cells.
MaxAnyArea == 6
\* Boards of SpecState have at most MaxStateArea cells.
MaxStateArea == 4
\* Longest engine snake during which the caller writes to a returned dict.
MaxWriteLen == 1
\* Constructor arguments of SpecConfig range over -MaxDim .. MaxDim.
MaxDim == 2
\* Boards of SpecSetup, where a test has assigned the fields, have at most
\* MaxSetupArea cells and its snakes at most MaxSetupSnake segments.
MaxSetupArea == 4
MaxSetupSnake == 3
\* Longest snake a test may install directly (SpecFood).
MaxSnake == 2

\* Block sizes of the boards explored: 1 (no rounding), 2 (exact halves), 3.
BlockSizes == {1, 2, 3}

None == <<>>

\* ---------------------------------------------------------------- helpers
\* Python's `p in list`.
contains(list, p) == \E i \in 1..Len(list) : list[i] = p

\* Python's list[:-1].
all_but_last(list) == SubSeq(list, 1, Len(list) - 1)

\* random.randrange(0, n): the integers 0 .. n-1 (empty when n <= 0).
randrange(n) == 0..(n - 1)

\* round(r / d) for integers r and d # 0: Python 3 rounds an exact half to
\* the even neighbour.  The quotient is taken over a positive divisor
\* (r / d = -r / -d), where \div is the floor and % its remainder.
round(r, d) ==
    LET n == IF d > 0 THEN r ELSE -r
        e == IF d > 0 THEN d ELSE -d
        q == n \div e
        m == n % e
    IN  IF 2 * m < e THEN q
        ELSE IF 2 * m > e THEN q + 1
        ELSE IF q % 2 = 0 THEN q ELSE q + 1

\* The values one draw of a food coordinate can take (lines 66-69, 70-73).
food_coord(extent) ==
    { round(r, block_size) * block_size : r \in randrange(extent - block_size) }

\* generate_food redrawing only a position on the snake's head.
generate_food_head_only(snake) ==
    { p \in food_coord(width) \X food_coord(height) : p # snake[1] }

\* generate_food without the loop that redraws a position on the snake.
generate_food_no_redraw(snake) ==
    food_coord(width) \X food_coord(height)

\* generate_food: the positions the call can return when the snake is `snake`;
\* it redraws while the position is on the snake, so it returns nothing (and
\* never returns) when every position it can draw is occupied.
generate_food(snake) ==
    { p \in food_coord(width) \X food_coord(height) : ~ contains(snake, p) }

\* The dict of change_direction with its .get(): None for a missing key.
opposite_directions(d) ==
    IF d = <<block_size, 0>> THEN <<-block_size, 0>>
    ELSE IF d = <<-block_size, 0>> THEN <<block_size, 0>>
    ELSE IF d = <<0, block_size>> THEN <<0, -block_size>>
    ELSE IF d = <<0, -block_size>> THEN <<0, block_size>>
    ELSE None

\* The displacements handle_input passes for the four arrow keys.
Cardinals == { <<-block_size, 0>>, <<block_size, 0>>,
               <<0, -block_size>>, <<0, block_size>> }

\* Displacements change_direction accepts without validation: the cardinals,
\* the zero vector, two opposite diagonals and two opposite double steps.
Displacements ==
    Cardinals \cup { <<0, 0>>, <<block_size, block_size>>, <<-block_size, -block_size>>,
                     <<2 * block_size, 0>>, <<-2 * block_size, 0>> }

new_head == << snake_pos[1][1] + direction[1], snake_pos[1][2] + direction[2] >>

\* collision with the right and bottom walls one cell too far out.
collision_wall_late(p) ==
    \/ p[1] > width
    \/ p[1] < 0
    \/ p[2] > height
    \/ p[2] < 0
    \/ contains(all_but_last(snake_pos), p)

\* collision without the test against the snake's own segments.
collision_walls_only(p) ==
    \/ p[1] >= width
    \/ p[1] < 0
    \/ p[2] >= height
    \/ p[2] < 0

\* collision testing the whole snake, the tail included.
collision_with_tail(p) ==
    \/ p[1] >= width
    \/ p[1] < 0
    \/ p[2] >= height
    \/ p[2] < 0
    \/ contains(snake_pos, p)

\* The condition of lines 130-136.
collision(p) ==
    \/ p[1] >= width
    \/ p[1] < 0
    \/ p[2] >= height
    \/ p[2] < 0
    \/ contains(all_but_last(snake_pos), p)

Call(op, arg) == [op |-> op, arg |-> arg]

Snapshot ==
    [snake_pos |-> snake_pos, direction |-> direction, food_pos |-> food_pos,
     score |-> score, game_over |-> game_over, returned |-> returned]

\* The caller holds no dict before its first get_state call.
NoState ==
    [taken |-> FALSE, aliased |-> FALSE, snake_positions |-> <<>>,
     food_position |-> <<>>, score |-> 0, game_over |-> FALSE]

\* The held dict after the engine's list has become `snake` by insert and pop
\* (lines 140, 147), which change the list object in place: a dict that holds
\* that same object shows the change.
seen(snake) ==
    IF returned.aliased THEN [returned EXCEPT !.snake_positions = snake]
    ELSE returned

\* The held dict after the engine has bound snake_pos to a new list (line 51):
\* the dict keeps the old list, which is the engine's no longer.
detached == [returned EXCEPT !.aliased = FALSE]

\* The boards explored: width and height are multiples of block_size, at
\* least two cells per side (the configuration section 6 of the spec asks
\* the caller to construct with).
Boards ==
    { <<k[1] * b, k[2] * b, b>> :
        k \in { c \in (2..(MaxArea \div 2)) \X (2..(MaxArea \div 2)) : c[1] * c[2] <= MaxArea },
        b \in BlockSizes }

\* ---------------------------------------------------------------- operations
\* __init__ (lines 34-37): the board is stored and reset_game runs.
Init ==
    \E board \in Boards :
        /\ width = board[1]
        /\ height = board[2]
        /\ block_size = board[3]
        /\ game_over = FALSE
        /\ score = 0
        /\ snake_pos = << <<width \div 2, height \div 2>> >>
        /\ direction = <<0, 0>>
        /\ food_pos \in generate_food(snake_pos)
        /\ pc = "ready"
        /\ last = Call("init", None)
        /\ returned = NoState
        /\ before = Snapshot
        /\ ret = None

\* reset_game that leaves direction as it was.
reset_game_keeps_direction ==
    /\ pc = "ready"
    /\ game_over' = FALSE
    /\ score' = 0
    /\ snake_pos' = << <<width \div 2, height \div 2>> >>
    /\ direction' = direction
    /\ IF generate_food(snake_pos') = {}
       THEN food_pos' = food_pos /\ pc' = "generate_food"
       ELSE food_pos' \in generate_food(snake_pos') /\ pc' = "ready"
    /\ last' = Call("reset_game", None)
    /\ before' = Snapshot
    /\ returned' = detached
    /\ UNCHANGED <<width, height, block_size, ret>>

\* reset_game that leaves game_over as it was.
reset_game_keeps_game_over ==
    /\ pc = "ready"
    /\ game_over' = game_over
    /\ score' = 0
    /\ snake_pos' = << <<width \div 2, height \div 2>> >>
    /\ direction' = <<0, 0>>
    /\ IF generate_food(snake_pos') = {}
       THEN food_pos' = food_pos /\ pc' = "generate_food"
       ELSE food_pos' \in generate_food(snake_pos') /\ pc' = "ready"
    /\ last' = Call("reset_game", None)
    /\ before' = Snapshot
    /\ returned' = detached
    /\ UNCHANGED <<width, height, block_size, ret>>

\* reset_game (lines 48-53).
reset_game ==
    /\ pc = "ready"
    /\ game_over' = FALSE
    /\ score' = 0
    /\ snake_pos' = << <<width \div 2, height \div 2>> >>
    /\ direction' = <<0, 0>>
    /\ IF generate_food(snake_pos') = {}
       THEN food_pos' = food_pos /\ pc' = "generate_food"
       ELSE food_pos' \in generate_food(snake_pos') /\ pc' = "ready"
    /\ last' = Call("reset_game", None)
    /\ before' = Snapshot
    /\ returned' = detached
    /\ UNCHANGED <<width, height, block_size, ret>>

\* change_direction without the reversal test.
change_direction_always(new_direction) ==
    /\ pc = "ready"
    /\ direction' = new_direction
    /\ last' = Call("change_direction", new_direction)
    /\ before' = Snapshot
    /\ UNCHANGED <<width, height, block_size, game_over, score, snake_pos,
                   food_pos, pc, ret, returned>>

\* change_direction (lines 100-109).
change_direction(new_direction) ==
    /\ pc = "ready"
    /\ IF direction = <<0, 0>> \/ new_direction # opposite_directions(direction)
       THEN direction' = new_direction
       ELSE direction' = direction
    /\ last' = Call("change_direction", new_direction)
    /\ before' = Snapshot
    /\ UNCHANGED <<width, height, block_size, game_over, score, snake_pos,
                   food_pos, pc, ret, returned>>

\* move_snake that removes the tail on every tick, food or not.
move_snake_always_pops ==
    /\ pc = "ready"
    /\ last' = Call("move_snake", None)
    /\ before' = Snapshot
    /\ UNCHANGED <<width, height, block_size, direction, ret>>
    /\ IF direction = <<0, 0>>
       THEN UNCHANGED <<game_over, score, snake_pos, food_pos, pc>>
       ELSE IF collision(new_head)
       THEN /\ game_over' = TRUE
            /\ UNCHANGED <<score, snake_pos, food_pos, pc>>
       ELSE IF new_head = food_pos
       THEN /\ snake_pos' = <<new_head>> \o all_but_last(snake_pos)
            /\ score' = score + 1
            /\ IF generate_food(snake_pos') = {}
               THEN food_pos' = food_pos /\ pc' = "generate_food"
               ELSE food_pos' \in generate_food(snake_pos') /\ pc' = "ready"
            /\ UNCHANGED game_over
       ELSE /\ snake_pos' = <<new_head>> \o all_but_last(snake_pos)
            /\ UNCHANGED <<game_over, score, food_pos, pc>>
    /\ returned' = seen(snake_pos')

\* move_snake that keeps the tail on every tick, food or not.
move_snake_never_pops ==
    /\ pc = "ready"
    /\ last' = Call("move_snake", None)
    /\ before' = Snapshot
    /\ UNCHANGED <<width, height, block_size, direction, ret>>
    /\ IF direction = <<0, 0>>
       THEN UNCHANGED <<game_over, score, snake_pos, food_pos, pc>>
       ELSE IF collision(new_head)
       THEN /\ game_over' = TRUE
            /\ UNCHANGED <<score, snake_pos, food_pos, pc>>
       ELSE IF new_head = food_pos
       THEN /\ snake_pos' = <<new_head>> \o snake_pos
            /\ score' = score + 1
            /\ IF generate_food(snake_pos') = {}
               THEN food_pos' = food_pos /\ pc' = "generate_food"
               ELSE food_pos' \in generate_food(snake_pos') /\ pc' = "ready"
            /\ UNCHANGED game_over
       ELSE /\ snake_pos' = <<new_head>> \o snake_pos
            /\ UNCHANGED <<game_over, score, food_pos, pc>>
    /\ returned' = seen(snake_pos')

\* move_snake that grows the snake on food without counting it.
move_snake_no_score ==
    /\ pc = "ready"
    /\ last' = Call("move_snake", None)
    /\ before' = Snapshot
    /\ UNCHANGED <<width, height, block_size, direction, ret>>
    /\ IF direction = <<0, 0>>
       THEN UNCHANGED <<game_over, score, snake_pos, food_pos, pc>>
       ELSE IF collision(new_head)
       THEN /\ game_over' = TRUE
            /\ UNCHANGED <<score, snake_pos, food_pos, pc>>
       ELSE IF new_head = food_pos
       THEN /\ snake_pos' = <<new_head>> \o snake_pos
            /\ score' = score
            /\ IF generate_food(snake_pos') = {}
               THEN food_pos' = food_pos /\ pc' = "generate_food"
               ELSE food_pos' \in generate_food(snake_pos') /\ pc' = "ready"
            /\ UNCHANGED game_over
       ELSE /\ snake_pos' = <<new_head>> \o all_but_last(snake_pos)
            /\ UNCHANGED <<game_over, score, food_pos, pc>>
    /\ returned' = seen(snake_pos')

\* move_snake (lines 121-147).
move_snake ==
    /\ pc = "ready"
    /\ last' = Call("move_snake", None)
    /\ before' = Snapshot
    /\ UNCHANGED <<width, height, block_size, direction, ret>>
    /\ IF direction = <<0, 0>>
       THEN UNCHANGED <<game_over, score, snake_pos, food_pos, pc>>
       ELSE IF collision(new_head)
       THEN /\ game_over' = TRUE
            /\ UNCHANGED <<score, snake_pos, food_pos, pc>>
       ELSE IF new_head = food_pos
       THEN /\ snake_pos' = <<new_head>> \o snake_pos
            /\ score' = score + 1
            /\ IF generate_food(snake_pos') = {}
               THEN food_pos' = food_pos /\ pc' = "generate_food"
               ELSE food_pos' \in generate_food(snake_pos') /\ pc' = "ready"
            /\ UNCHANGED game_over
       ELSE /\ snake_pos' = <<new_head>> \o all_but_last(snake_pos)
            /\ UNCHANGED <<game_over, score, food_pos, pc>>
    /\ returned' = seen(snake_pos')

\* One key press handled by handle_input (snake_game.py lines 109-117).
handle_input == \E d \in Cardinals : change_direction(d)

Next == handle_input \/ move_snake \/ reset_game

Spec == Init /\ [][Next]_vars

\* game_loop calls move_snake once per frame (snake_game.py line 148), so a
\* tick that can be taken is eventually taken.
FairSpec == Spec /\ WF_vars(move_snake)

\* A caller that passes change_direction any displacement (the engine does not
\* validate its argument).
any_direction == \E d \in Displacements : change_direction(d)

NextAny == any_direction \/ move_snake \/ reset_game

InitAny == Init /\ width * height <= MaxAnyArea * block_size * block_size

SpecAny == InitAny /\ [][NextAny]_vars

\* A direct call of generate_food, as tests/test_game_logic.py makes
\* (line 155): the result is returned, no field is assigned.
generate_food_call ==
    /\ pc = "ready"
    /\ IF generate_food(snake_pos) = {}
       THEN pc' = "generate_food" /\ ret' = ret
       ELSE pc' = "ready" /\ ret' \in generate_food(snake_pos)
    /\ last' = Call("generate_food", None)
    /\ before' = Snapshot
    /\ UNCHANGED <<width, height, block_size, game_over, score, snake_pos,
                   direction, food_pos, returned>>

\* The grid cells of the board.
Cells ==
    { <<i * block_size, j * block_size>> :
        i \in 0..(width \div block_size - 1), j \in 0..(height \div block_size - 1) }

\* Snakes a test installs by assigning snake_pos (test_game_logic.py lines
\* 71, 82, 132): any sequence of 1..MaxSnake cells.
Snakes == UNION { [1..n -> Cells] : n \in 1..MaxSnake }

\* An engine whose fields a test has set directly before calling generate_food.
InitFood ==
    \E board \in Boards :
        /\ width = board[1]
        /\ height = board[2]
        /\ block_size = board[3]
        /\ game_over \in BOOLEAN
        /\ score \in {0, 1}
        /\ snake_pos \in Snakes
        /\ direction \in {<<0, 0>>, <<block_size, 0>>}
        /\ food_pos = <<0, 0>>
        /\ pc = "ready"
        /\ last = Call("init", None)
        /\ returned = NoState
        /\ before = Snapshot
        /\ ret = None

NextFood == generate_food_call

SpecFood == InitFood /\ [][NextFood]_vars

\* get_state (lines 183-188): the dict holds the engine's own list object, the
\* food tuple and the two scalars.
get_state ==
    /\ pc = "ready"
    /\ returned' = [taken |-> TRUE, aliased |-> TRUE, snake_positions |-> snake_pos,
                    food_position |-> food_pos, score |-> score,
                    game_over |-> game_over]
    /\ last' = Call("get_state", None)
    /\ before' = Snapshot
    /\ UNCHANGED <<width, height, block_size, game_over, score, snake_pos,
                   direction, food_pos, pc, ret>>

\* The caller assigns (0, 0) to item 0 of the list in the dict it holds; the
\* engine's list changes with it while it is the same object.  The caller is
\* taken to write only while the engine's snake has at most MaxWriteLen
\* segments, which keeps the snake's length bounded.
caller_writes ==
    /\ pc = "ready"
    /\ returned.taken
    /\ Len(snake_pos) <= MaxWriteLen
    /\ returned' = [returned EXCEPT !.snake_positions[1] = <<0, 0>>]
    /\ snake_pos' = IF returned.aliased THEN returned'.snake_positions ELSE snake_pos
    /\ last' = Call("caller_writes", <<0, 0>>)
    /\ before' = Snapshot
    /\ UNCHANGED <<width, height, block_size, game_over, score, direction,
                   food_pos, pc, ret>>

NextState == handle_input \/ move_snake \/ reset_game \/ get_state \/ caller_writes

\* Boards of SpecState, where the caller also holds and edits a returned dict,
\* have at most MaxStateArea cells.
InitState == Init /\ width * height <= MaxStateArea * block_size * block_size

SpecState == InitState /\ [][NextState]_vars

\* The exceptions generate_food raises on its first draws: randrange(0, n)
\* raises ValueError for n <= 0 (lines 67, 71) and the division raises
\* ZeroDivisionError for block_size 0 (line 67).
draw_raises ==
    \/ width - block_size <= 0
    \/ block_size = 0
    \/ height - block_size <= 0

\* __init__ with any three integers (lines 34-37): nothing is validated; the
\* call ends in the exception of generate_food, or never returns when the
\* only position that can be drawn is the snake's, or yields an engine.
InitConfig ==
    /\ width \in (-MaxDim)..MaxDim
    /\ height \in (-MaxDim)..MaxDim
    /\ block_size \in (-MaxDim)..MaxDim
    /\ game_over = FALSE
    /\ score = 0
    /\ snake_pos = << <<width \div 2, height \div 2>> >>
    /\ direction = <<0, 0>>
    /\ IF draw_raises THEN food_pos = None /\ pc = "error"
       ELSE IF generate_food(snake_pos) = {} THEN food_pos = None /\ pc = "generate_food"
       ELSE food_pos \in generate_food(snake_pos) /\ pc = "ready"
    /\ last = Call("init", None)
    /\ returned = NoState
    /\ before = Snapshot
    /\ ret = None

SpecConfig == InitConfig /\ [][Next]_vars

\* check_collision testing the whole snake, the tail included.
check_collision_whole_snake(position) ==
    IF \/ position[1] >= width
       \/ position[1] < 0
       \/ position[2] >= height
       \/ position[2] < 0
    THEN TRUE
    ELSE IF contains(snake_pos, position) THEN TRUE
    ELSE FALSE

\* check_collision (lines 159-171): the value returned for `position`.
check_collision(position) ==
    IF \/ position[1] >= width
       \/ position[1] < 0
       \/ position[2] >= height
       \/ position[2] < 0
    THEN TRUE
    ELSE IF contains(all_but_last(snake_pos), position) THEN TRUE
    ELSE FALSE

\* The positions check_collision is asked about: the cells of the board and
\* the ring of cells just outside it.
Probes ==
    { <<i * block_size, j * block_size>> :
        i \in (-1)..(width \div block_size), j \in (-1)..(height \div block_size) }

\* A direct call of check_collision: the result is returned, no field is
\* assigned.
check_collision_call ==
    \E position \in Probes :
        /\ pc = "ready"
        /\ ret' = << check_collision(position) >>
        /\ last' = Call("check_collision", position)
        /\ before' = Snapshot
        /\ UNCHANGED <<width, height, block_size, game_over, score, snake_pos,
                       direction, food_pos, pc, returned>>

\* An engine whose snake_pos, food_pos and direction a test has assigned
\* (test_game_logic.py lines 71-72, 82-83, 98-101).
InitSetup ==
    \E board \in Boards :
        /\ board[1] * board[2] <= MaxSetupArea * board[3] * board[3]
        /\ width = board[1]
        /\ height = board[2]
        /\ block_size = board[3]
        /\ game_over = FALSE
        /\ score = 0
        /\ snake_pos \in UNION { [1..n -> Cells] : n \in 1..MaxSetupSnake }
        /\ direction \in Cardinals \cup {<<0, 0>>}
        /\ food_pos \in Cells
        /\ pc = "ready"
        /\ last = Call("init", None)
        /\ returned = NoState
        /\ before = Snapshot
        /\ ret = None

NextSetup == move_snake \/ check_collision_call

SpecSetup == InitSetup /\ [][NextSetup]_vars

\* ---------------------------------------------------------------- properties
\* What a move_snake call that began in `before` computes as its new head.
Target == << before.snake_pos[1][1] + before.direction[1],
             before.snake_pos[1][2] + before.direction[2] >>

OutOfBounds(p) == p[1] < 0 \/ p[1] >= width \/ p[2] < 0 \/ p[2] >= height

\* Target hits a wall or a segment of the snake other than its last.
Hit ==
    \/ OutOfBounds(Target)
    \/ \E i \in 1..(Len(before.snake_pos) - 1) : before.snake_pos[i] = Target

\* The last call was a move_snake tick with a non-stationary direction.
Ticked == last.op = "move_snake" /\ before.direction # <<0, 0>>

\* C1: whenever game_over is false the head lies in [0, width) x [0, height).
C1_HeadInBounds ==
    ~ game_over => ~ OutOfBounds(snake_pos[1])

\* A tick has just moved a living snake's head into the last column.
C1_Witness ==
    /\ ~ game_over
    /\ Ticked
    /\ snake_pos # before.snake_pos
    /\ snake_pos[1][1] + block_size >= width

\* C2: whenever game_over is false no two segments of the snake hold the same
\* position.
C2_NoDuplicateSegments ==
    ~ game_over =>
        \A i, j \in 1..Len(snake_pos) : i # j => snake_pos[i] # snake_pos[j]

\* A tick has just moved the head of a living snake of four or more segments
\* into the cell its tail was vacating.
C2_Witness ==
    /\ ~ game_over
    /\ Ticked
    /\ Len(before.snake_pos) >= 4
    /\ Len(snake_pos) = Len(before.snake_pos)
    /\ snake_pos[1] = before.snake_pos[Len(before.snake_pos)]
    /\ snake_pos[1] = Target

\* C3: with change_direction only ever given cardinal displacements, no
\* move_snake tick computes a new head equal to the snake's neck.
C3_NeverTurnsIntoNeck ==
    (Ticked /\ Len(before.snake_pos) >= 2) => Target # before.snake_pos[2]

\* C4: change_direction(D) leaves direction unchanged when D is the exact
\* opposite of the current cardinal direction, sets it to D otherwise, and
\* changes nothing else.
C4_ChangeDirection ==
    last.op = "change_direction" =>
        LET D == last.arg
            cur == before.direction
            cardinal == cur \in { <<block_size, 0>>, <<-block_size, 0>>,
                                  <<0, block_size>>, <<0, -block_size>> }
            reversal == cardinal /\ D = << -cur[1], -cur[2] >>
        IN  /\ direction = (IF reversal THEN cur ELSE D)
            /\ snake_pos = before.snake_pos
            /\ food_pos = before.food_pos
            /\ score = before.score
            /\ game_over = before.game_over

\* A reversal of a cardinal direction has just been ignored.
C4_Witness ==
    /\ last.op = "change_direction"
    /\ before.direction \in Cardinals
    /\ last.arg = << -before.direction[1], -before.direction[2] >>
    /\ direction = before.direction

\* C5: a tick with a non-stationary direction sets game_over exactly when the
\* new head is outside the board or on a segment other than the tail, and
\* then leaves snake_pos, score, food_pos and direction unchanged.
C5_CollisionEndsGame ==
    Ticked =>
        /\ Hit => /\ game_over
                  /\ snake_pos = before.snake_pos
                  /\ score = before.score
                  /\ food_pos = before.food_pos
                  /\ direction = before.direction
        /\ ~ Hit => game_over = before.game_over

\* A tick has just ended a running game on a segment of the snake that is
\* neither its neck nor its tail, inside the board.
C5_Witness ==
    /\ Ticked
    /\ ~ before.game_over
    /\ game_over
    /\ ~ OutOfBounds(Target)
    /\ Hit
    /\ Target # before.snake_pos[2]

\* C6: a tick whose new head is no collision and is the food raises score by
\* one and puts the new head in front of all old segments; when the tick
\* returns, food_pos is off the updated snake and differs from the eaten
\* position; the snake's length is its initial length 1 plus the score.
C6_EatingGrows ==
    /\ (Ticked /\ ~ Hit /\ Target = before.food_pos) =>
           /\ score = before.score + 1
           /\ snake_pos = <<Target>> \o before.snake_pos
           /\ pc = "ready" =>
                  /\ \A i \in 1..Len(snake_pos) : snake_pos[i] # food_pos
                  /\ food_pos # before.food_pos
    /\ Len(snake_pos) = 1 + score

\* A tick has just eaten the second food since the reset.
C6_Witness ==
    /\ Ticked
    /\ ~ Hit
    /\ Target = before.food_pos
    /\ before.score = 1
    /\ score = 2
    /\ pc = "ready"

\* C7: generate_food returns a grid-aligned position within
\* [0, width - block_size] x [0, height - block_size] that is on no segment of
\* the snake, and changes neither snake_pos, score, direction nor game_over.
C7_GenerateFood ==
    last.op = "generate_food" =>
        /\ pc = "ready" =>
               /\ ret[1] % block_size = 0
               /\ ret[2] % block_size = 0
               /\ 0 <= ret[1] /\ ret[1] <= width - block_size
               /\ 0 <= ret[2] /\ ret[2] <= height - block_size
               /\ \A i \in 1..Len(snake_pos) : snake_pos[i] # ret
        /\ snake_pos = before.snake_pos
        /\ score = before.score
        /\ direction = before.direction
        /\ game_over = before.game_over

\* generate_food has just returned while the snake lies on a position it
\* could have drawn.
C7_Witness ==
    /\ last.op = "generate_food"
    /\ pc = "ready"
    /\ ret # None
    /\ \E i \in 1..Len(snake_pos) :
           snake_pos[i] \in food_coord(width) \X food_coord(height)

\* C8: reset_game yields score 0, game_over false, direction (0, 0), the single
\* segment (width // 2, height // 2) and a food position off that segment.
C8_Reset ==
    last.op = "reset_game" =>
        /\ score = 0
        /\ game_over = FALSE
        /\ direction = <<0, 0>>
        /\ snake_pos = << <<width \div 2, height \div 2>> >>
        /\ food_pos # <<width \div 2, height \div 2>>

\* reset_game has just run on a finished game with a grown, moving snake.
C8_Witness ==
    /\ last.op = "reset_game"
    /\ before.game_over
    /\ before.score >= 1
    /\ Len(before.snake_pos) >= 2
    /\ before.direction # <<0, 0>>

\* C9: while game_over is true, move_snake and change_direction leave
\* snake_pos, food_pos and score unchanged.
C9_FrozenWhenOver ==
    (before.game_over /\ last.op \in {"move_snake", "change_direction"}) =>
        /\ snake_pos = before.snake_pos
        /\ food_pos = before.food_pos
        /\ score = before.score

\* C10: game_over goes from false to true only in a move_snake tick that
\* detects a collision, from true to false only in reset_game, and is false
\* after construction and after reset_game.
C10_GameOverTransitions ==
    /\ (~ before.game_over /\ game_over) => (Ticked /\ Hit)
    /\ (before.game_over /\ ~ game_over) => last.op = "reset_game"
    /\ last.op \in {"init", "reset_game"} => ~ game_over

\* reset_game has just taken a finished game back to playing.
C10_Witness ==
    /\ last.op = "reset_game"
    /\ before.game_over
    /\ ~ game_over

\* The last call was a tick that ate: its new head was no collision and was on
\* the food.
Ate == Ticked /\ ~ Hit /\ Target = before.food_pos

\* C11: score is never negative; a call leaves it unchanged, or raises it by
\* exactly 1, which every food-eating tick and no other call does, or sets it
\* to 0, which reset_game does; so it counts the food-eating ticks since the
\* last reset.
C11_ScoreCountsFood ==
    /\ score >= 0
    /\ Ate => score = before.score + 1
    /\ last.op = "reset_game" => score = 0
    /\ (last.op # "reset_game" /\ ~ Ate) => score = before.score

\* A tick has just eaten the third food since the reset.
C11_Witness ==
    /\ Ate
    /\ before.score = 2
    /\ score = 3

\* C12: on a board whose width and height are multiples of block_size, every
\* segment of the snake and the food have coordinates that are multiples of
\* block_size.
C12_GridAligned ==
    (width % block_size = 0 /\ height % block_size = 0) =>
        /\ \A i \in 1..Len(snake_pos) :
               snake_pos[i][1] % block_size = 0 /\ snake_pos[i][2] % block_size = 0
        /\ food_pos[1] % block_size = 0
        /\ food_pos[2] % block_size = 0

\* C13: the dict get_state returned is isolated from the engine: move_snake
\* and reset_game change neither its snake sequence nor its food position, and
\* a change the caller makes to its snake sequence does not change the
\* engine's snake_pos.
C13_StateIsolated ==
    /\ (before.returned.taken /\ last.op \in {"move_snake", "reset_game"}) =>
           /\ returned.snake_positions = before.returned.snake_positions
           /\ returned.food_position = before.returned.food_position
    /\ last.op = "caller_writes" => snake_pos = before.snake_pos

\* C14: constructing the engine with a non-positive width, height or
\* block_size, or with block_size greater than width or height, ends in an
\* error.
C14_InvalidConfigRejected ==
    ( \/ width <= 0
      \/ height <= 0
      \/ block_size <= 0
      \/ block_size > width
      \/ block_size > height ) => pc = "error"

C16_PlainMove ==
    /\ (Ticked /\ ~ Hit /\ Target # before.food_pos) =>
           /\ snake_pos = <<Target>> \o SubSeq(before.snake_pos, 1, Len(before.snake_pos) - 1)
           /\ score = before.score
           /\ food_pos = before.food_pos
           /\ direction = before.direction
           /\ game_over = before.game_over
    /\ (last.op = "move_snake" /\ before.direction = <<0, 0>>) =>
           /\ snake_pos = before.snake_pos
           /\ score = before.score
           /\ food_pos = before.food_pos
           /\ direction = before.direction
           /\ game_over = before.game_over
           /\ pc = "ready"

\* A tick has just slid a snake of three or more segments one cell on.
C16_Witness ==
    /\ Ticked
    /\ ~ Hit
    /\ Target # before.food_pos
    /\ Len(before.snake_pos) >= 3
    /\ snake_pos[1] = Target
    /\ snake_pos[2] = before.snake_pos[1]

C18_EveryFreeCellDrawable ==
    generate_food(snake_pos) =
        { c \in Cells : \A i \in 1..Len(snake_pos) : snake_pos[i] # c }

\* C19: between calls food_pos is on no segment of the snake, so no tick has a
\* new head that is both on the food and on the snake's last segment.
C19_FoodOffSnake ==
    /\ pc = "ready" => \A i \in 1..Len(snake_pos) : snake_pos[i] # food_pos
    /\ Ticked => ~ ( /\ Target = before.food_pos
                     /\ Target = before.snake_pos[Len(before.snake_pos)] )

\* A tick has just slid a snake of three or more segments into the cell its
\* tail was vacating, past food placed on an earlier tick.
C19_Witness ==
    /\ Ticked
    /\ pc = "ready"
    /\ Len(before.snake_pos) >= 3
    /\ snake_pos[1] = before.snake_pos[Len(before.snake_pos)]
    /\ Len(snake_pos) = Len(before.snake_pos)
    /\ food_pos = before.food_pos
    /\ ~ game_over

\* C20: from a playing state between ticks whose direction is cardinal,
\* repeated move_snake calls with no change_direction or reset_game call in
\* between eventually make game_over true.
C20_TicksEndGame ==
    (last.op = "move_snake" /\ pc = "ready" /\ ~ game_over /\ direction \in Cardinals)
        ~> (game_over \/ last.op \in {"change_direction", "reset_game"})

====
